---- MODULE Spec2Model ----
(***************************************************************************)
(* Model of micrograd/engine.py: the scalar computation graph of Value     *)
(* nodes, its differentiable operations and the backward pass.             *)
(*                                                                         *)
(* A Value is a record [data, grad, args, op, p]: args is the tuple of     *)
(* operand nodes the _backward closure captures (self, other), _prev is    *)
(* the set of its elements, p is the exponent a "**" node was built with.  *)
(* Nodes are named by their position in the sequence nodes, which is the   *)
(* order of construction.  Numbers are exact rationals <<num, den>> in     *)
(* lowest terms with den > 0; the rounding of floating point is not        *)
(* modelled.  Exceptions are modelled: err is the outcome of the last call.*)
(***************************************************************************)
EXTENDS Integers, Sequences, FiniteSets

VARIABLES nodes, err, last, ncalls, nback

vars == <<nodes, err, last, ncalls, nback>>

\* ---------------------------------------------------------------- bounds
\* Calls that build nodes, calls of backward(), and the largest numerator and
\* denominator a built node's data may have.
MaxCalls == 3
MaxBackward == 2
MaxAbs == 20

\* ------------------------------------------------------------- rationals
Abs(n) == IF n < 0 THEN -n ELSE n

RECURSIVE GCD(_, _)
GCD(a, b) == IF b = 0 THEN a ELSE GCD(b, a % b)

Norm(n, d) ==
  LET s == IF d < 0 THEN -1 ELSE 1
      g == GCD(Abs(n), Abs(d))
  IN  <<(s * n) \div g, (s * d) \div g>>

R(n) == <<n, 1>>
RAdd(a, b) == Norm(a[1] * b[2] + b[1] * a[2], a[2] * b[2])
RMul(a, b) == Norm(a[1] * b[1], a[2] * b[2])
RInv(a) == Norm(a[2], a[1])
RIsZero(a) == a[1] = 0
RLt0(a) == a[1] < 0
RGt0(a) == a[1] > 0

RECURSIVE RPowNat(_, _)
RPowNat(a, k) == IF k = 0 THEN R(1) ELSE RMul(a, RPowNat(a, k - 1))

\* Python's x ** p for an integer p: 0 ** p raises ZeroDivisionError for p < 0.
PowRaises(a, p) == RIsZero(a) /\ p < 0
PyPow(a, p) == IF p >= 0 THEN RPowNat(a, p) ELSE RPowNat(RInv(a), -p)

InRange(a) == Abs(a[1]) <= MaxAbs /\ a[2] <= MaxAbs

\* ----------------------------------------------------- inputs of the model
\* Raw numbers a caller wraps as leaf nodes, passes as a bare numeric operand
\* and uses as exponents.
LeafValues == {0, 3, 710}
Numbers == {0, 2}
Exponents == {-1, 0, 2}

\* math.exp raises OverflowError from this argument on (the largest double is
\* about e^709.78).
ExpOverflowAt == 710

\* --------------------------------------------------------------- Value
\* Value.__init__: grad starts at 0, _backward is a no-op until the operation
\* that built the node replaces it (op and args determine the closure).
Value(data, children, op, p) ==
  [data |-> data, grad |-> R(0), args |-> children, op |-> op, p |-> p]

\* _prev = set(_children)
Prev(v) == {v.args[k] : k \in DOMAIN v.args}

\* An operand of a call: a Value (by its name) or a raw number.
Node(i) == [k |-> "node", i |-> i, c |-> R(0)]
Num(c) == [k |-> "num", i |-> 0, c |-> c]

\* The result of a call on the graph ns: the graph after it, the node it
\* returns (0 when it raised) and the exception it raised.
Ok(ns, out) == [ns |-> ns, out |-> out, e |-> "none"]
Raise(ns, e) == [ns |-> ns, out |-> 0, e |-> e]

New(ns, v) == Ok(Append(ns, v), Len(ns) + 1)

\* other if isinstance(other, Value) else Value(other)
Wrap(ns, other) ==
  IF other.k = "node" THEN Ok(ns, other.i)
  ELSE New(ns, Value(other.c, <<>>, "", 0))

add(ns, self, other) ==
  LET w == Wrap(ns, other)
  IN  New(w.ns, Value(RAdd(w.ns[self].data, w.ns[w.out].data), <<self, w.out>>, "+", 0))

mul(ns, self, other) ==
  LET w == Wrap(ns, other)
  IN  New(w.ns, Value(RMul(w.ns[self].data, w.ns[w.out].data), <<self, w.out>>, "*", 0))

\* Variant of pow without the assert: a Value exponent is read as its data.
powNoAssert(ns, self, other) ==
  LET q == IF other.k = "node" THEN ns[other.i].data[1] ELSE other.c[1]
  IN  IF PowRaises(ns[self].data, q) THEN Raise(ns, "ZeroDivisionError")
      ELSE New(ns, Value(PyPow(ns[self].data, q), <<self>>, "**", q))

\* __pow__: the assert rejects a Value exponent before anything is built;
\* self.data ** other raises for 0 ** negative.
pow(ns, self, other) ==
  IF other.k = "node" THEN Raise(ns, "AssertionError")
  ELSE IF PowRaises(ns[self].data, other.c[1]) THEN Raise(ns, "ZeroDivisionError")
  ELSE New(ns, Value(PyPow(ns[self].data, other.c[1]), <<self>>, "**", other.c[1]))

rmul(ns, self, other) == mul(ns, self, other)

radd(ns, self, other) == add(ns, self, other)

neg(ns, self) == mul(ns, self, Num(R(-1)))

\* -other: Value.__neg__ for a Value, the number's own negation otherwise.
Negated(ns, other) ==
  IF other.k = "node"
  THEN LET m == neg(ns, other.i) IN [ns |-> m.ns, val |-> Node(m.out)]
  ELSE [ns |-> ns, val |-> Num(RMul(R(-1), other.c))]

sub(ns, self, other) ==
  LET m == Negated(ns, other) IN add(m.ns, self, m.val)

\* __rsub__(self, other) is called for other - self and returns self + (-other).
rsub(ns, self, other) ==
  LET m == Negated(ns, other) IN add(m.ns, self, m.val)

\* self * other**-1: other**-1 is Value.__pow__ for a Value and the number's
\* own power otherwise; both raise ZeroDivisionError on 0.
truediv(ns, self, other) ==
  IF other.k = "node"
  THEN LET q == pow(ns, other.i, Num(R(-1)))
       IN  IF q.e # "none" THEN q ELSE mul(q.ns, self, Node(q.out))
  ELSE IF PowRaises(other.c, -1) THEN Raise(ns, "ZeroDivisionError")
  ELSE mul(ns, self, Num(PyPow(other.c, -1)))

\* other * self**-1 with a raw number other: the product is Value.__rmul__.
rtruediv(ns, self, other) ==
  LET q == pow(ns, self, Num(R(-1)))
  IN  IF q.e # "none" THEN q ELSE rmul(q.ns, q.out, other)

\* math.exp(x): OverflowError from ExpOverflowAt on.  Its value is rational
\* only at 0, the one argument the model evaluates it at.
ExpOverflows(x) == x[1] >= ExpOverflowAt * x[2]
ExpDefined(x) == RIsZero(x) \/ ExpOverflows(x)
MathExp(x) == R(1)

exp(ns, self) ==
  LET x == ns[self].data
  IN  IF ExpOverflows(x) THEN Raise(ns, "OverflowError")
      ELSE New(ns, Value(MathExp(x), <<self>>, "exp", 0))

tanh(ns, self) ==
  LET x == ns[self].data
      x2 == RMul(R(2), x)
  IN  IF ExpOverflows(x2) THEN Raise(ns, "OverflowError")
      ELSE LET t == RMul(RAdd(MathExp(x2), R(-1)), RInv(RAdd(MathExp(x2), R(1))))
           IN  New(ns, Value(t, <<self>>, "tanh", 0))

sigmoid(ns, self) ==
  LET x == RMul(R(-1), ns[self].data)
  IN  IF ExpOverflows(x) THEN Raise(ns, "OverflowError")
      ELSE LET s == RInv(RAdd(R(1), MathExp(x)))
           IN  New(ns, Value(s, <<self>>, "sigmoid", 0))

relu(ns, self) ==
  LET x == ns[self].data
  IN  New(ns, Value(IF RLt0(x) THEN R(0) ELSE x, <<self>>, "ReLU", 0))

\* ------------------------------------------------------------ backward
Grads(ns) == [i \in 1..Len(ns) |-> ns[i].grad]
WithGrads(ns, g) == [i \in 1..Len(ns) |-> [ns[i] EXCEPT !.grad = g[i]]]

\* Variant of Accumulate: x.grad = c, the last contribution only.
AccumulateAssign(g, x, c) == [g EXCEPT ![x] = c]

\* x.grad += c
Accumulate(g, x, c) == [g EXCEPT ![x] = RAdd(@, c)]

\* The _backward closures, run for node v on the gradients g: the gradients
\* after the call and the exception it raised.  Each += reads out.grad and
\* the operand's gradient at the time it runs.
NoBackward(ns, g, v) == [g |-> g, e |-> "none"]

AddBackward(ns, g, v) ==
  LET self == ns[v].args[1]
      other == ns[v].args[2]
      g1 == Accumulate(g, self, RMul(R(1), g[v]))
  IN  [g |-> Accumulate(g1, other, RMul(R(1), g1[v])), e |-> "none"]

\* Variant of MulBackward: both operands are updated from the gradients read
\* before the call, so x * x credits x once.
MulBackwardAtOnce(ns, g, v) ==
  LET self == ns[v].args[1]
      other == ns[v].args[2]
  IN  [g |-> [g EXCEPT ![self] = RAdd(g[self], RMul(ns[other].data, g[v])),
                       ![other] = RAdd(g[other], RMul(ns[self].data, g[v]))],
       e |-> "none"]

MulBackward(ns, g, v) ==
  LET self == ns[v].args[1]
      other == ns[v].args[2]
      g1 == Accumulate(g, self, RMul(ns[other].data, g[v]))
  IN  [g |-> Accumulate(g1, other, RMul(ns[self].data, g1[v])), e |-> "none"]

\* Variant of PowBackward: a zero operand with other - 1 negative is skipped
\* instead of raising.
PowBackwardSkipsZero(ns, g, v) ==
  LET self == ns[v].args[1]
      other == ns[v].p
  IN  IF PowRaises(ns[self].data, other - 1)
      THEN [g |-> g, e |-> "none"]
      ELSE [g |-> Accumulate(g, self,
                    RMul(RMul(R(other), PyPow(ns[self].data, other - 1)), g[v])),
            e |-> "none"]

\* other * (self.data ** (other - 1)) * out.grad: the power raises for a
\* zero self.data when other - 1 is negative, before grad is touched.
PowBackward(ns, g, v) ==
  LET self == ns[v].args[1]
      other == ns[v].p
  IN  IF PowRaises(ns[self].data, other - 1)
      THEN [g |-> g, e |-> "ZeroDivisionError"]
      ELSE [g |-> Accumulate(g, self,
                    RMul(RMul(R(other), PyPow(ns[self].data, other - 1)), g[v])),
            e |-> "none"]

TanhBackward(ns, g, v) ==
  LET t == ns[v].data
  IN  [g |-> Accumulate(g, ns[v].args[1],
               RMul(RAdd(R(1), RMul(R(-1), PyPow(t, 2))), g[v])),
       e |-> "none"]

\* Variant of ReluBackward: out.data >= 0 lets the gradient through at 0.
ReluBackwardAtZero(ns, g, v) ==
  [g |-> Accumulate(g, ns[v].args[1],
           RMul(IF RLt0(ns[v].data) THEN R(0) ELSE R(1), g[v])),
   e |-> "none"]

ReluBackward(ns, g, v) ==
  [g |-> Accumulate(g, ns[v].args[1],
           RMul(IF RGt0(ns[v].data) THEN R(1) ELSE R(0), g[v])),
   e |-> "none"]

SigmoidBackward(ns, g, v) ==
  LET sg == ns[v].data
  IN  [g |-> Accumulate(g, ns[v].args[1],
               RMul(RMul(sg, RAdd(R(1), RMul(R(-1), sg))), g[v])),
       e |-> "none"]

ExpBackward(ns, g, v) ==
  [g |-> Accumulate(g, ns[v].args[1], RMul(ns[v].data, g[v])), e |-> "none"]

\* node._backward()
CallBackward(ns, g, v) ==
  CASE ns[v].op = "" -> NoBackward(ns, g, v)
    [] ns[v].op = "+" -> AddBackward(ns, g, v)
    [] ns[v].op = "*" -> MulBackward(ns, g, v)
    [] ns[v].op = "**" -> PowBackward(ns, g, v)
    [] ns[v].op = "tanh" -> TanhBackward(ns, g, v)
    [] ns[v].op = "ReLU" -> ReluBackward(ns, g, v)
    [] ns[v].op = "sigmoid" -> SigmoidBackward(ns, g, v)
    [] ns[v].op = "exp" -> ExpBackward(ns, g, v)

\* for child in v._prev: a set of two nodes is iterated in either order; flip
\* holds the nodes whose operands come out higher name first.
Min(S) == CHOOSE x \in S : \A y \in S : x <= y
Max(S) == CHOOSE x \in S : \A y \in S : x >= y
Children(ns, v, flip) ==
  LET P == Prev(ns[v])
  IN  IF P = {} THEN <<>>
      ELSE IF Cardinality(P) = 1 THEN <<Min(P)>>
      ELSE IF v \in flip THEN <<Max(P), Min(P)>> ELSE <<Min(P), Max(P)>>

\* Variant of buildTopo: v is appended before its operands are visited.
RECURSIVE buildTopoPreorder(_, _, _, _)
buildTopoPreorder(ns, v, st, flip) ==
  IF v \in st.visited THEN st
  ELSE LET s0 == [visited |-> st.visited \cup {v}, topo |-> Append(st.topo, v)]
           ch == Children(ns, v, flip)
           s1 == IF Len(ch) >= 1 THEN buildTopoPreorder(ns, ch[1], s0, flip) ELSE s0
       IN  IF Len(ch) >= 2 THEN buildTopoPreorder(ns, ch[2], s1, flip) ELSE s1

\* Variant of buildTopo: no visited set, a shared operand is entered again.
RECURSIVE buildTopoRevisit(_, _, _, _)
buildTopoRevisit(ns, v, st, flip) ==
  LET ch == Children(ns, v, flip)
      s1 == IF Len(ch) >= 1 THEN buildTopoRevisit(ns, ch[1], st, flip) ELSE st
      s2 == IF Len(ch) >= 2 THEN buildTopoRevisit(ns, ch[2], s1, flip) ELSE s1
  IN  [visited |-> s2.visited \cup {v}, topo |-> Append(s2.topo, v)]

\* buildTopo(v) on the state st = [visited, topo] of the enclosing backward().
RECURSIVE buildTopo(_, _, _, _)
buildTopo(ns, v, st, flip) ==
  IF v \in st.visited THEN st
  ELSE LET s0 == [visited |-> st.visited \cup {v}, topo |-> st.topo]
           ch == Children(ns, v, flip)
           s1 == IF Len(ch) >= 1 THEN buildTopo(ns, ch[1], s0, flip) ELSE s0
           s2 == IF Len(ch) >= 2 THEN buildTopo(ns, ch[2], s1, flip) ELSE s1
       IN  [visited |-> s2.visited, topo |-> Append(s2.topo, v)]

\* Variant of Reversed: the order is walked as built, operands first.
NotReversed(s) == s

Reversed(s) == [k \in 1..Len(s) |-> s[Len(s) + 1 - k]]

\* for node in reversed(topo): node._backward(), from position k of order on;
\* an exception ends the loop.  invoked lists the nodes whose _backward was
\* called.
RECURSIVE RunLoop(_, _, _, _, _)
RunLoop(ns, order, k, g, invoked) ==
  IF k > Len(order) THEN [g |-> g, e |-> "none", invoked |-> invoked]
  ELSE LET r == CallBackward(ns, g, order[k])
       IN  IF r.e # "none"
           THEN [g |-> r.g, e |-> r.e, invoked |-> Append(invoked, order[k])]
           ELSE RunLoop(ns, order, k + 1, r.g, Append(invoked, order[k]))

\* Variant of Seed: every gradient is reset before root is seeded.
SeedAfterReset(g, root) == [i \in DOMAIN g |-> IF i = root THEN R(1) ELSE R(0)]

\* self.grad = 1.0
Seed(g, root) == [g EXCEPT ![root] = R(1)]

\* Value.backward() from root on the gradients g.
backward(ns, g, root, flip) ==
  LET g0 == Seed(g, root)
      topo == buildTopo(ns, root, [visited |-> {}, topo |-> <<>>], flip).topo
      run == RunLoop(ns, Reversed(topo), 1, g0, <<>>)
  IN  [g |-> run.g, e |-> run.e, topo |-> topo, invoked |-> run.invoked]

\* ------------------------------------------------------------- the calls
Ids == 1..Len(nodes)
Operands == {Node(i) : i \in Ids} \cup {Num(R(c)) : c \in Numbers}
RawNumbers == {Num(R(c)) : c \in Numbers}

NoCall == [call |-> "construct", root |-> 0, topo |-> <<>>, invoked |-> <<>>, pre |-> <<>>]

\* A call that builds nodes: it happens when the graph stays within the
\* bounds of the model; a call that raises leaves the graph as it was.
Construct(rs) ==
  /\ ncalls < MaxCalls
  /\ \E res \in {rs} :
       /\ \A i \in (Len(nodes) + 1)..Len(res.ns) : InRange(res.ns[i].data)
       /\ nodes' = res.ns
       /\ err' = res.e
  /\ last' = NoCall
  /\ ncalls' = ncalls + 1
  /\ UNCHANGED nback

\* Value(c) for a raw number c.
NewValue(c) ==
  /\ ncalls < MaxCalls
  /\ nodes' = Append(nodes, Value(R(c), <<>>, "", 0))
  /\ err' = "none"
  /\ last' = NoCall
  /\ ncalls' = ncalls + 1
  /\ UNCHANGED nback
Add(i, o) == Construct(add(nodes, i, o))
Mul(i, o) == Construct(mul(nodes, i, o))
Pow(i, p) == Construct(pow(nodes, i, Num(R(p))))
PowByValue(i, j) == Construct(pow(nodes, i, Node(j)))
RMulCall(i, o) == Construct(rmul(nodes, i, o))
RAddCall(i, o) == Construct(radd(nodes, i, o))
Neg(i) == Construct(neg(nodes, i))
Sub(i, o) == Construct(sub(nodes, i, o))
RSub(i, o) == Construct(rsub(nodes, i, o))
TrueDiv(i, o) == Construct(truediv(nodes, i, o))
RTrueDiv(i, o) == Construct(rtruediv(nodes, i, o))
Exp(i) == ExpDefined(nodes[i].data) /\ Construct(exp(nodes, i))
Tanh(i) == ExpDefined(RMul(R(2), nodes[i].data)) /\ Construct(tanh(nodes, i))
Sigmoid(i) == ExpDefined(RMul(R(-1), nodes[i].data)) /\ Construct(sigmoid(nodes, i))
Relu(i) == Construct(relu(nodes, i))

\* The nodes with two different operands, whose _prev has an iteration order.
Binary == {v \in Ids : Cardinality(Prev(nodes[v])) = 2}

\* root.backward(); last records the call: the gradients before it, the order
\* buildTopo produced and the nodes whose _backward was called.
Backward(root, flip) ==
  /\ nback < MaxBackward
  /\ \E b \in {backward(nodes, Grads(nodes), root, flip)} :
         /\ nodes' = WithGrads(nodes, b.g)
         /\ err' = b.e
         /\ last' = [call |-> "backward", root |-> root, topo |-> b.topo,
                     invoked |-> b.invoked, pre |-> Grads(nodes)]
  /\ nback' = nback + 1
  /\ UNCHANGED ncalls

Init ==
  /\ nodes = <<>>
  /\ err = "none"
  /\ last = NoCall
  /\ ncalls = 0
  /\ nback = 0

Next ==
  \/ \E c \in LeafValues : NewValue(c)
  \/ \E i \in Ids, o \in Operands : Add(i, o)
  \/ \E i \in Ids, o \in Operands : Mul(i, o)
  \/ \E i \in Ids, p \in Exponents : Pow(i, p)
  \/ \E i \in Ids, j \in Ids : PowByValue(i, j)
  \/ \E i \in Ids, o \in RawNumbers : RMulCall(i, o)
  \/ \E i \in Ids, o \in RawNumbers : RAddCall(i, o)
  \/ \E i \in Ids : Neg(i)
  \/ \E i \in Ids, o \in Operands : Sub(i, o)
  \/ \E i \in Ids, o \in RawNumbers : RSub(i, o)
  \/ \E i \in Ids, o \in Operands : TrueDiv(i, o)
  \/ \E i \in Ids, o \in RawNumbers : RTrueDiv(i, o)
  \/ \E i \in Ids : Exp(i)
  \/ \E i \in Ids : Tanh(i)
  \/ \E i \in Ids : Sigmoid(i)
  \/ \E i \in Ids : Relu(i)
  \/ \E root \in Ids, flip \in SUBSET Binary : Backward(root, flip)

Spec == Init /\ [][Next]_vars

\* ===================================================== reference notions
\* The nodes reachable from r through operands.
RECURSIVE Reach(_, _)
Reach(ns, r) == {r} \cup UNION {Reach(ns, c) : c \in Prev(ns[r])}

\* The local derivative of node v with respect to its k-th operand, as
\* calculus gives it (the derivative of x^0 is 0 everywhere; relu has slope 0
\* at 0).
LocalPartial(ns, v, k) ==
  LET n == ns[v]
      x == ns[n.args[k]].data
  IN  CASE n.op = "+" -> R(1)
        [] n.op = "*" -> ns[n.args[3 - k]].data
        [] n.op = "**" -> IF n.p = 0 THEN R(0)
                          ELSE RMul(R(n.p), PyPow(x, n.p - 1))
        [] n.op = "tanh" -> RAdd(R(1), RMul(R(-1), RMul(n.data, n.data)))
        [] n.op = "ReLU" -> IF RGt0(x) THEN R(1) ELSE R(0)
        [] n.op = "sigmoid" -> RMul(n.data, RAdd(R(1), RMul(R(-1), n.data)))
        [] n.op = "exp" -> n.data

\* d r / d n by the chain rule: the sum over the operand slots of r, that is
\* over all paths from r to n, of the products of the local derivatives.
RECURSIVE Deriv(_, _, _)
Deriv(ns, r, n) ==
  IF r = n THEN R(1)
  ELSE LET a == ns[r].args
           t(k) == IF k > Len(a) THEN R(0)
                   ELSE RMul(LocalPartial(ns, r, k), Deriv(ns, a[k], n))
       IN  RAdd(t(1), t(2))

\* The number of paths from r to n (an operation taking n as both operands
\* gives two).
RECURSIVE NPaths(_, _, _)
NPaths(ns, r, n) ==
  IF r = n THEN 1
  ELSE LET a == ns[r].args
           t(k) == IF k > Len(a) THEN 0 ELSE NPaths(ns, a[k], n)
       IN  t(1) + t(2)

IsLeaf(v) == nodes[v].args = <<>>
AfterBackward == last.call = "backward"
Completed == AfterBackward /\ err = "none"
\* The call was made on a graph whose gradients were all 0.
Fresh == \A i \in DOMAIN last.pre : last.pre[i] = R(0)

\* y = x*x + x for a leaf x = 3
IsExample(x, m, y) ==
  /\ IsLeaf(x) /\ nodes[x].data = R(3)
  /\ nodes[m].op = "*" /\ nodes[m].args = <<x, x>>
  /\ nodes[y].op = "+" /\ nodes[y].args = <<m, x>>

ExampleHolds ==
  \A x \in Ids, m \in Ids, y \in Ids :
    IsExample(x, m, y) =>
      /\ nodes[y].data = R(12)
      /\ (AfterBackward /\ Fresh /\ last.root = y) => nodes[x].grad = R(7)

SharedLeaves(r) == {x \in Reach(nodes, r) : IsLeaf(x) /\ NPaths(nodes, r, x) >= 2}

CleanBelow == \A n \in Reach(nodes, last.root) \ {last.root} : last.pre[n] = R(0)

C3_PowByValueRejected ==
  [][\A i \in Ids, j \in Ids :
       PowByValue(i, j) => (err' = "AssertionError" /\ nodes' = nodes)]_vars

C3_Witness ==
  /\ err = "AssertionError"
  /\ \E i \in Ids : nodes[i].args # <<>> /\ ~RIsZero(nodes[i].grad)

OperandValue(o) == IF o.k = "node" THEN nodes[o.i].data ELSE o.c
Outcome(raises, e) == IF raises THEN e ELSE "none"

\* A power node whose _backward raises: operand 0 and exponent <= 0.
RaisingPow(v) ==
  /\ nodes[v].op = "**"
  /\ RIsZero(nodes[nodes[v].args[1]].data)
  /\ nodes[v].p <= 0

C4_ConstructOutcome ==
  last'.call = "construct" =>
    /\ \A c \in LeafValues : NewValue(c) => err' = "none"
    /\ \A i \in Ids, o \in Operands :
         /\ (Add(i, o) \/ Mul(i, o) \/ Sub(i, o)) => err' = "none"
         /\ TrueDiv(i, o) =>
              err' = Outcome(RIsZero(OperandValue(o)), "ZeroDivisionError")
    /\ \A i \in Ids, o \in RawNumbers :
         /\ (RAddCall(i, o) \/ RMulCall(i, o) \/ RSub(i, o)) => err' = "none"
         /\ RTrueDiv(i, o) =>
              err' = Outcome(RIsZero(nodes[i].data), "ZeroDivisionError")
    /\ \A i \in Ids, q \in Exponents :
         Pow(i, q) =>
           err' = Outcome(RIsZero(nodes[i].data) /\ q < 0, "ZeroDivisionError")
    /\ \A i \in Ids, j \in Ids : PowByValue(i, j) => err' = "AssertionError"
    /\ \A i \in Ids :
         /\ (Neg(i) \/ Relu(i)) => err' = "none"
         /\ Exp(i) => err' = Outcome(ExpOverflows(nodes[i].data), "OverflowError")
         /\ Tanh(i) =>
              err' = Outcome(ExpOverflows(RMul(R(2), nodes[i].data)), "OverflowError")
         /\ Sigmoid(i) =>
              err' = Outcome(ExpOverflows(RMul(R(-1), nodes[i].data)), "OverflowError")

C4_BackwardOutcome ==
  AfterBackward =>
    err = Outcome(\E v \in Reach(nodes, last.root) : RaisingPow(v), "ZeroDivisionError")

ZeroGrads(ns) == [i \in 1..Len(ns) |-> R(0)]

\* C5 as stated: with a raw number c on the left, c - x has value c - x.data
\* and a backward pass from it gives x the gradient -1; c + x, c * x and c / x
\* have the values c + x.data, c * x.data and c / x.data.
C5_AsStated ==
  [][last'.call = "construct" =>
       \A i \in Ids, o \in RawNumbers :
         LET out == Len(nodes')
             x == nodes[i].data
         IN  /\ RSub(i, o) =>
                  /\ nodes'[out].data = RAdd(o.c, RMul(R(-1), x))
                  /\ backward(nodes', ZeroGrads(nodes'), out, {}).g[i] = R(-1)
             /\ RAddCall(i, o) => nodes'[out].data = RAdd(o.c, x)
             /\ RMulCall(i, o) => nodes'[out].data = RMul(o.c, x)
             /\ (RTrueDiv(i, o) /\ err' = "none") =>
                  nodes'[out].data = RMul(o.c, RInv(x))]_vars

\* C6: a relu node holds x.data if x.data > 0 and 0 otherwise; backward() from
\* it adds g = 1 to x.grad if its value is > 0 and adds 0 otherwise, so that at
\* x.data = 0 the value is 0 and a gradient of 0 stays 0.
C6_Relu ==
  /\ \A v \in Ids :
       nodes[v].op = "ReLU" =>
         LET x == nodes[nodes[v].args[1]].data
         IN  nodes[v].data = IF RGt0(x) THEN x ELSE R(0)
  /\ (AfterBackward /\ nodes[last.root].op = "ReLU") =>
       LET x == nodes[last.root].args[1]
           out == nodes[last.root]
       IN  /\ nodes[x].grad = RAdd(last.pre[x], IF RGt0(out.data) THEN R(1) ELSE R(0))
           /\ (RIsZero(nodes[x].data) /\ RIsZero(last.pre[x])) =>
                (RIsZero(out.data) /\ RIsZero(nodes[x].grad))

C6_Witness ==
  /\ AfterBackward /\ nodes[last.root].op = "ReLU"
  /\ LET x == nodes[last.root].args[1]
     IN  RIsZero(nodes[x].data) /\ RIsZero(last.pre[x]) /\ RIsZero(nodes[x].grad)

Count(seq, n) == Cardinality({k \in DOMAIN seq : seq[k] = n})
Before(seq, a, b) ==
  \E ka \in DOMAIN seq, kb \in DOMAIN seq : seq[ka] = a /\ seq[kb] = b /\ ka < kb

\* Every reachable node's _backward was called exactly once, after that of
\* each reachable node that has it as an operand, root's first.
InvokedInOrder ==
  LET S == Reach(nodes, last.root)
  IN  /\ \A n \in S : Count(last.invoked, n) = 1
      /\ \A n \in S, c \in S : n \in Prev(nodes[c]) => Before(last.invoked, c, n)
      /\ last.invoked[1] = last.root

Shared(n) ==
  Cardinality({c \in Reach(nodes, last.root) : n \in Prev(nodes[c])}) >= 2

SameUnderEveryOrder ==
  \A flip \in SUBSET Binary :
    backward(nodes, last.pre, last.root, flip).g = Grads(nodes)

Acyclic == \A v \in Ids : \A c \in Prev(nodes[v]) : c \in Ids /\ c < v

Frame ==
  /\ Len(nodes') >= Len(nodes)
  /\ \A i \in Ids :
       /\ nodes'[i].data = nodes[i].data
       /\ nodes'[i].args = nodes[i].args
       /\ nodes'[i].op = nodes[i].op
       /\ nodes'[i].p = nodes[i].p
       /\ nodes'[i].grad # nodes[i].grad =>
            (last'.call = "backward" /\ i \in Reach(nodes, last'.root))

\* C10: every node keeps the value and operands it was built with and the
\* operand relation stays acyclic; building nodes changes no gradient, and
\* backward() changes gradients only, of nodes reachable from root only.
C10_Frame == []Acyclic /\ [][Frame]_vars

\* A second pass that moved gradients below its root and left alone the
\* gradient an earlier pass gave a node outside.
C10_Witness ==
  /\ AfterBackward /\ nback = 2
  /\ \E n \in Ids \ Reach(nodes, last.root) :
       ~RIsZero(last.pre[n]) /\ nodes[n].grad = last.pre[n]
  /\ \E m \in Reach(nodes, last.root) \ {last.root} : nodes[m].grad # last.pre[m]

====
